---- MODULE Spec2Model ----
(***************************************************************************)
(* Model of the charity scraper: the field extraction of                   *)
(* CharityScraper._extract_charity_details, the sqlite store of            *)
(* DatabaseManager and the ingestion loop of                               *)
(* CharityScraper.scrape_and_store_charities.                              *)
(*                                                                         *)
(* Four specifications share the variables:                                *)
(*   Spec         runs of scrape_and_store_charities against the store     *)
(*   SpecLive     the runs alone, under weak fairness of the loop's steps  *)
(*   SpecExtract  _extract_charity_details applied to every bounded page   *)
(*   SpecStore    DatabaseManager calls made directly on the table         *)
(***************************************************************************)
EXTENDS Integers, Sequences, FiniteSets, TLC

VARIABLES
  charities,      \* the rows of table 'charities', in insertion order
  site,           \* what the web site answers per key, fixed at first request
                  \* until the site is revised
  eins,           \* the key list of the current (or last) run
  idx,            \* position of the for loop in eins
  pc,             \* where the run stands
  existing_eins,  \* the set loaded at the start of the run
  html_content,   \* the page fetched for the current key
  charity_data,   \* the dict built for the current key
  log,            \* per processed position: what happened to the key
  runs,           \* number of runs started
  prev,           \* the table the run started from
  call,           \* the last DatabaseManager call and how it ended
  pause           \* seconds slept since the last page was fetched, 0 if none

vars == <<charities, site, eins, idx, pc, existing_eins, html_content,
          charity_data, log, runs, prev, call, pause>>

(***************************************************************************)
(* Bounds                                                                  *)
(***************************************************************************)
MaxKeys == 2      \* longest key list of a run
MaxRuns == 2      \* runs per behaviour
MaxBlocks == 2    \* script blocks per page in SpecExtract
MaxRows == 3      \* rows of the table in SpecStore

(***************************************************************************)
(* Python values.  A value is tagged with its type; v is its text.         *)
(*   Absent    the key is not in the dict at all                           *)
(*   None      Python None / JSON null / SQL NULL                          *)
(*   EmptyDict the {} that dict.get(key, {}) returns for a missing key     *)
(***************************************************************************)
Absent == [t |-> "absent", v |-> ""]
None == [t |-> "null", v |-> ""]
EmptyDict == [t |-> "obj", v |-> "{}"]
Str(s) == [t |-> "str", v |-> s]
Num(s) == [t |-> "num", v |-> s]

\* Python truthiness, as used by `not x` and `if x`
Truthy(x) ==
  /\ x.t \notin {"absent", "null"}
  /\ ~(x.t = "str" /\ x.v = "")
  /\ x # EmptyDict

\* dict.get(key, {}) on a key whose entry is e
DictGet(e) == IF e = Absent THEN EmptyDict ELSE e

(***************************************************************************)
(* Pages.  A page is its ld+json block (canon) and its other script tags.  *)
(***************************************************************************)
\* shapes of data["review"]
ReviewShapes == {"missing", "notdict", "norating", "novalue", "rated"}

NoCanon == [kind |-> "absent", name |-> Absent, url |-> Absent,
            nonprofitStatus |-> Absent, review |-> "missing"]
BadCanon == [NoCanon EXCEPT !.kind = "unparseable"]
Canon(n, u, s, r) == [kind |-> "dict", name |-> n, url |-> u,
                      nonprofitStatus |-> s, review |-> r]

\* the ld+json blocks of SpecExtract: every combination of name, url and
\* nonprofitStatus, and every shape of review
Canons ==
  {NoCanon, BadCanon}
  \cup { Canon(n, u, s, "rated") : n \in {Absent, Str(""), Str("Acme")},
                                   u \in {Absent, Str(""),
                                          Str("http://acme.org")},
                                   s \in {Absent, Str("501c3")} }
  \cup { Canon(Str("Acme"), Str("http://acme.org"), Str("501c3"), r) :
           r \in ReviewShapes }

\* the fields the regular expressions look for in a script tag
FreeFields == {"name", "url", "addressPhysical", "phone", "mission",
               "causes", "score"}

\* what a regular expression found: m = "none" no match, "ok" a fragment
\* that parses, "undef" a fragment holding "$undefined", "bad" a fragment
\* json.loads rejects
NoMatch == [m |-> "none", v |-> ""]
Frag(m, v) == [m |-> m, v |-> v]

\* a script tag: qualifies = it contains "orgDetails" and "causes";
\* rating = it contains "ratingDetails" and "score"
Tag(q, r, ok, undef, bad, v) ==
  [qualifies |-> q, rating |-> r,
   frag |-> [f \in FreeFields |->
               IF f \in bad THEN Frag("bad", v)
               ELSE IF f \in undef THEN Frag("undef", v)
               ELSE IF f \in ok THEN Frag("ok", v)
               ELSE NoMatch]]

SixFields == FreeFields \ {"score"}

TagShapes(v) ==
  { Tag(FALSE, TRUE, FreeFields, {}, {}, v),
    Tag(TRUE, FALSE, {"url"}, {}, {}, v),
    Tag(TRUE, FALSE, {"name", "url"}, {}, {}, v),
    Tag(TRUE, FALSE, SixFields, {}, {}, v),
    Tag(TRUE, TRUE, FreeFields, {}, {}, v),
    Tag(TRUE, FALSE, {"name"}, {}, {"mission"}, v),
    Tag(TRUE, TRUE, {"score"}, {"phone"}, {}, v),
    Tag(TRUE, FALSE, {"addressPhysical", "score"}, {}, {}, v) }

Tags == TagShapes("a") \cup TagShapes("b")

TagSeqs == UNION { [1..n -> Tags] : n \in 0..MaxBlocks }

Pages == { [canon |-> c, tags |-> ts] : c \in Canons, ts \in TagSeqs }

(***************************************************************************)
(* _convert_individual_entry_for_json / _convert_string_for_json           *)
(* The result is the value parsed under the fragment's key, or Raised      *)
(* when json.loads throws.                                                 *)
(***************************************************************************)
Raised == [t |-> "raise", v |-> ""]
NoJson == [t |-> "nojson", v |-> ""]     \* the local is still None

ConvertIndividualEntry(field, fr) ==
  CASE fr.m = "bad" -> Raised
    [] fr.m = "undef" -> None
    [] OTHER -> IF field = "score" THEN Num(fr.v) ELSE Str(fr.v)

\* the fragment is an object or array body: a "$undefined" inside it
\* becomes a null inside the parsed value
ConvertStringForJson(field, fr) ==
  IF fr.m = "bad" THEN Raised ELSE Str(fr.v)

Convert(field, fr) ==
  IF field \in {"addressPhysical", "causes"}
    THEN ConvertStringForJson(field, fr)
    ELSE ConvertIndividualEntry(field, fr)

(***************************************************************************)
(* _extract_charity_details                                                *)
(***************************************************************************)
DetailFields == {"name", "website", "nonprofitStatus", "review", "address",
                 "phone", "mission", "categories", "rating"}

NoDetails == [f \in DetailFields |-> Absent]

\* lines 150-158
ReviewValue(shape) ==
  CASE shape = "rated" -> Str("4")
    [] shape = "novalue" -> EmptyDict
    [] OTHER -> None

\* lines 143-164: the ld+json block
CanonicalDetails(canon) ==
  IF canon.kind = "dict"
    THEN [NoDetails EXCEPT !.name = DictGet(canon.name),
                           !.website = DictGet(canon.url),
                           !.nonprofitStatus = DictGet(canon.nonprofitStatus),
                           !.review = ReviewValue(canon.review)]
    ELSE [NoDetails EXCEPT !.name = None, !.website = None, !.review = None]

\* lines 169-175: the locals of the scan
InitScan ==
  [name_json |-> NoJson, website_json |-> NoJson, address_json |-> NoJson,
   phone_json |-> NoJson, mission_json |-> NoJson, causes_json |-> NoJson,
   score_json |-> NoJson, raised |-> FALSE, done |-> FALSE]

\* one `match = re.search(...); if match and <guard>: local = convert(...)`
TakeMatch(s, local, field, fr, guard) ==
  IF s.raised \/ fr.m = "none" \/ ~guard THEN s
  ELSE IF Convert(field, fr) = Raised THEN [s EXCEPT !.raised = TRUE]
  ELSE [s EXCEPT ![local] = Convert(field, fr)]

\* the break taken without waiting for the score
SatisfiedWithoutScore(s) ==
  /\ s.name_json # NoJson /\ s.address_json # NoJson
  /\ s.phone_json # NoJson /\ s.mission_json # NoJson
  /\ s.causes_json # NoJson

\* line 227
Satisfied(s) ==
  /\ s.name_json # NoJson /\ s.address_json # NoJson
  /\ s.phone_json # NoJson /\ s.mission_json # NoJson
  /\ s.causes_json # NoJson /\ s.score_json # NoJson

\* lines 178-228: the body of the loop for one tag
ScanTag(s, tag) ==
  IF s.raised \/ s.done \/ ~tag.qualifies THEN s
  ELSE
    LET f == tag.frag
        s1 == TakeMatch(s, "name_json", "name", f.name, s.name_json = NoJson)
        s2 == TakeMatch(s1, "website_json", "url", f.url,
                        s1.name_json = NoJson)
        s3 == TakeMatch(s2, "address_json", "addressPhysical",
                        f.addressPhysical, s2.address_json = NoJson)
        s4 == TakeMatch(s3, "phone_json", "phone", f.phone,
                        s3.phone_json = NoJson)
        s5 == TakeMatch(s4, "mission_json", "mission", f.mission,
                        s4.mission_json = NoJson)
        s6 == TakeMatch(s5, "causes_json", "causes", f.causes,
                        s5.causes_json = NoJson)
        s7 == IF tag.rating
                THEN TakeMatch(s6, "score_json", "score", f.score,
                               s6.score_json = NoJson)
                ELSE s6
    IN IF ~s7.raised /\ Satisfied(s7) THEN [s7 EXCEPT !.done = TRUE] ELSE s7

\* lines 177-228: the loop over the script tags
RECURSIVE ScanTags(_, _)
ScanTags(s, tags) ==
  IF tags = <<>> THEN s ELSE ScanTags(ScanTag(s, Head(tags)), Tail(tags))

\* lines 244-247
ReconcileWebsite(d, s) ==
  IF ~Truthy(d.website) /\ s.website_json # NoJson
    THEN s.website_json
    ELSE None

\* lines 244-287
Reconcile(d, s) ==
  [d EXCEPT
     !.website = ReconcileWebsite(d, s),
     !.address = IF s.address_json # NoJson THEN Str(s.address_json.v)
                 ELSE None,
     !.phone = IF s.phone_json # NoJson THEN s.phone_json ELSE None,
     !.mission = IF s.mission_json # NoJson THEN s.mission_json ELSE None,
     !.categories = IF s.causes_json # NoJson THEN Str(s.causes_json.v)
                    ELSE d.categories,
     !.rating = IF s.score_json # NoJson THEN s.score_json ELSE None]

\* the whole function: the dict it returns, or the exception it lets out
ExtractCharityDetails(page) ==
  LET s == ScanTags(InitScan, page.tags)
  IN IF s.raised
       THEN [raised |-> TRUE, details |-> NoDetails]
       ELSE [raised |-> FALSE,
             details |-> Reconcile(CanonicalDetails(page.canon), s)]

(***************************************************************************)
(* DatabaseManager: table 'charities' as created by scraper.py             *)
(***************************************************************************)
Columns == DetailFields \cup {"ein"}

NoData == [c \in Columns |-> Absent]

\* sqlite3 binds None, str and numbers; a dict makes execute() raise
Bindable(x) == x.t \in {"absent", "null", "str", "num"}

\* the row INSERT builds: a column the statement does not name is NULL
RowOf(data) == [c \in Columns |-> IF data[c] = Absent THEN None ELSE data[c]]

\* UNIQUE on ein: two rows conflict when their ein is equal and not NULL
Conflicts(r, row) == row.ein # None /\ r.ein = row.ein

\* REPLACE clearing the table instead of the rows in conflict
WithoutAnyRow(table, row) == <<>>

WithoutConflicts(table, row) ==
  LET Keep(r) == ~Conflicts(r, row) IN SelectSeq(table, Keep)

HasConflict(table, row) ==
  \E j \in 1..Len(table) : Conflicts(table[j], row)

\* insert_data as an UPDATE of the supplied columns: the row in conflict
\* keeps its value in every column the new record does not supply
InsertDataMerging(table, data, on_conflict) ==
  LET Merge(r) ==
        IF Conflicts(r, RowOf(data))
          THEN [c \in Columns |-> IF data[c] = Absent THEN r[c] ELSE data[c]]
          ELSE r
  IN IF HasConflict(table, RowOf(data))
       THEN [table |-> [j \in 1..Len(table) |-> Merge(table[j])],
             raised |-> FALSE]
       ELSE [table |-> Append(table, RowOf(data)), raised |-> FALSE]

\* insert_data(table_name, data, on_conflict): the table afterwards and
\* whether execute() raised
InsertData(table, data, on_conflict) ==
  LET row == RowOf(data) IN
  IF \E c \in Columns : ~Bindable(data[c])
    THEN [table |-> table, raised |-> TRUE]
  ELSE IF ~HasConflict(table, row)
    THEN [table |-> Append(table, row), raised |-> FALSE]
  ELSE CASE on_conflict = "REPLACE" ->
              [table |-> Append(WithoutConflicts(table, row), row),
               raised |-> FALSE]
         [] on_conflict = "IGNORE" -> [table |-> table, raised |-> FALSE]
         [] OTHER -> [table |-> table, raised |-> TRUE]

\* remove_entry_by_ein(table_name, ein)
RemoveByEin(table, ein) ==
  LET Keep(r) == r.ein # Str(ein) IN SelectSeq(table, Keep)

\* the run starts without loading the keys of the table
ExistingEinsNotLoaded(table) == {}

\* lines 300-301: fetch_data('charities', selection=['ein']) and the set
\* comprehension with its `if row.get('ein')` filter
ExistingEins(table) ==
  { table[j].ein.v : j \in { k \in 1..Len(table) : Truthy(table[k].ein) } }

\* the record of a DatabaseManager call: hit = the insert met a row with
\* the same ein
NoCall == [op |-> "none", policy |-> "", data |-> NoData, raised |-> FALSE,
           hit |-> FALSE]
InsertCall(table, data, policy) ==
  [op |-> "insert", policy |-> policy, data |-> data,
   raised |-> InsertData(table, data, policy).raised,
   hit |-> HasConflict(table, RowOf(data))]
DeleteCall(ein) ==
  [NoCall EXCEPT !.op = "delete", !.data = [NoData EXCEPT !.ein = Str(ein)]]
SelectCall == [NoCall EXCEPT !.op = "select"]

(***************************************************************************)
(* The key list and the web site                                           *)
(***************************************************************************)
HeaderToken == "EIN"
Keys == {HeaderToken, "", "11", "22"}

\* rows of the input csv: a blank line, or a line with one cell
CsvRows == {<<>>} \cup { <<k>> : k \in Keys \ {""} }
CsvFiles == UNION { [1..n -> CsvRows] : n \in 0..MaxKeys }

\* ", ".join(row)
JoinRow(row) == IF row = <<>> THEN "" ELSE row[1]

\* line 365 compares the row, a list, with a str: never equal
RowIsHeader(row) == FALSE

\* get_eins_from_input_csv
GetEinsFromInputCsv(rows) ==
  LET Keep(row) == ~RowIsHeader(row)
      kept == SelectSeq(rows, Keep)
  IN [j \in 1..Len(kept) |-> JoinRow(kept[j])]

FullCanon == Canon(Str("Acme"), Str("http://acme.org"), Str("501c3"), "rated")

\* the pages the site serves in Spec
SitePage(resp) ==
  CASE resp = "empty" -> [canon |-> NoCanon, tags |-> <<>>]
    [] resp = "canon" -> [canon |-> FullCanon, tags |-> <<>>]
    [] resp = "free" ->
         [canon |-> NoCanon,
          tags |-> <<Tag(TRUE, TRUE, FreeFields, {}, {}, "a")>>]
    [] resp = "badfrag" ->
         [canon |-> FullCanon,
          tags |-> <<Tag(TRUE, FALSE, {"name"}, {}, {"mission"}, "a")>>]
    [] resp = "nostatus" ->
         [canon |-> Canon(Str("Acme"), Str("http://acme.org"), Absent,
                          "rated"),
          tags |-> <<>>]
    [] resp = "blank" ->
         [canon |-> Canon(Str(""), Str("http://acme.org"), Str("501c3"),
                          "rated"),
          tags |-> <<>>]
    [] OTHER ->
         [canon |-> FullCanon,
          tags |-> <<Tag(TRUE, TRUE, FreeFields, {}, {}, "a")>>]

PageNames == {"empty", "canon", "free", "badfrag", "nostatus", "blank",
              "full"}

\* fetch_page returns None on a RequestException: "error"
Responses == PageNames \cup {"error"}

NoContent == [canon |-> NoCanon, tags |-> <<>>]

(***************************************************************************)
(* scrape_and_store_charities                                              *)
(***************************************************************************)
\* valid = this run follows a finished run directly, over the same key list
\* and with the site unchanged; table = the table when the run started
NoPrev == [valid |-> FALSE, table |-> <<>>]

Entry(ein, outcome, note, fetched, wrote) ==
  [ein |-> ein, outcome |-> outcome, note |-> note, fetched |-> fetched,
   wrote |-> wrote]

\* the comparison done with the wrong case
IsHeaderLowerCase(ein) == ein = "ein"

\* line 306
IsHeader(ein) == ein = HeaderToken

\* the test made on the table as it is now
AlreadyExistsNow(ein, existing) == ein \in ExistingEins(charities)

\* line 308
AlreadyExists(ein, existing) == ein \in existing

\* the test `'name' in charity_data` instead of its truth value
HasNameKey(data) == data.name # Absent

\* line 336
HasName(data) == Truthy(data.name)

Init ==
  /\ charities = <<>>
  /\ site = [k \in Keys |-> "unasked"]
  /\ eins = <<>>
  /\ idx = 1
  /\ pc = "idle"
  /\ existing_eins = {}
  /\ html_content = NoContent
  /\ charity_data = NoData
  /\ log = <<>>
  /\ runs = 0
  /\ prev = NoPrev
  /\ call = NoCall
  /\ pause = 0

\* no run is in progress: none started, the last one returned, or the
\* last one let an exception out
Stopped == {"idle", "done", "aborted"}

\* lines 297-301: entry of the function
StartRun ==
  /\ pc \in Stopped
  /\ runs < MaxRuns
  /\ \E rows \in CsvFiles : eins' = GetEinsFromInputCsv(rows)
  /\ existing_eins' = ExistingEins(charities)
  /\ prev' = [valid |-> pc = "done" /\ eins' = eins, table |-> charities]
  /\ pause' = 0
  /\ idx' = 1
  /\ pc' = "loop"
  /\ log' = <<>>
  /\ runs' = runs + 1
  /\ call' = SelectCall
  /\ html_content' = NoContent
  /\ charity_data' = NoData
  /\ UNCHANGED <<charities, site>>

\* line 300 outside the try: fetch_data raises (no table, locked file)
\* and the exception leaves scrape_and_store_charities
StartRunFails ==
  /\ pc \in Stopped
  /\ runs < MaxRuns
  /\ call' = [SelectCall EXCEPT !.raised = TRUE]
  /\ prev' = [valid |-> FALSE, table |-> charities]
  /\ eins' = <<>>
  /\ idx' = 1
  /\ pc' = "aborted"
  /\ log' = <<>>
  /\ runs' = runs + 1
  /\ pause' = 0
  /\ html_content' = NoContent
  /\ charity_data' = NoData
  /\ UNCHANGED <<charities, site, existing_eins>>

InLoop == pc = "loop" /\ idx <= Len(eins)

\* line 306
SkipHeader ==
  /\ InLoop
  /\ IsHeader(eins[idx])
  /\ log' = Append(log, Entry(eins[idx], "Skipped", "header", FALSE, FALSE))
  /\ idx' = idx + 1
  /\ UNCHANGED <<charities, site, eins, pc, existing_eins, html_content,
                 charity_data, runs, prev, call, pause>>

\* lines 308-310
SkipExisting ==
  /\ InLoop
  /\ ~IsHeader(eins[idx])
  /\ AlreadyExists(eins[idx], existing_eins)
  /\ log' = Append(log, Entry(eins[idx], "Skipped", "exists", FALSE, FALSE))
  /\ idx' = idx + 1
  /\ UNCHANGED <<charities, site, eins, pc, existing_eins, html_content,
                 charity_data, runs, prev, call, pause>>

ToFetch ==
  /\ InLoop
  /\ ~IsHeader(eins[idx])
  /\ ~AlreadyExists(eins[idx], existing_eins)

\* the site answers a key the same way every time it is asked
Answers(ein, resp) == site[ein] \in {"unasked", resp}

\* lines 322-324 with fetch_page returning the content
FetchPage ==
  /\ ToFetch
  /\ \E resp \in PageNames :
       /\ Answers(eins[idx], resp)
       /\ site' = [site EXCEPT ![eins[idx]] = resp]
       /\ html_content' = SitePage(resp)
  /\ pc' = "parse"
  /\ pause' = 0
  /\ UNCHANGED <<charities, eins, idx, existing_eins, charity_data, log,
                 runs, prev, call>>

\* a fetch failure that leaves the loop (break instead of continue)
FetchFailBreaks ==
  /\ pc = "loop" /\ idx <= Len(eins)
  /\ ~IsHeader(eins[idx])
  /\ ~AlreadyExists(eins[idx], existing_eins)
  /\ site[eins[idx]] \in {"unasked", "error"}
  /\ site' = [site EXCEPT ![eins[idx]] = "error"]
  /\ log' = Append(log, [ein |-> eins[idx], outcome |-> "Failed",
                         note |-> "fetch", fetched |-> TRUE, wrote |-> FALSE])
  /\ idx' = Len(eins) + 1
  /\ UNCHANGED <<charities, eins, pc, existing_eins, html_content,
                 charity_data, runs, prev, call, pause>>

\* lines 324-328 with fetch_page returning None
FetchFail ==
  /\ ToFetch
  /\ Answers(eins[idx], "error")
  /\ site' = [site EXCEPT ![eins[idx]] = "error"]
  /\ log' = Append(log, Entry(eins[idx], "Failed", "fetch", TRUE, FALSE))
  /\ idx' = idx + 1
  /\ UNCHANGED <<charities, eins, pc, existing_eins, html_content,
                 charity_data, runs, prev, call, pause>>

\* Extract with the exception leaving the loop
ExtractAborts ==
  /\ pc = "parse"
  /\ LET r == ExtractCharityDetails(html_content) IN
       IF r.raised
         THEN /\ pc' = "aborted"
              /\ charity_data' = NoData
              /\ UNCHANGED <<log, idx>>
         ELSE /\ charity_data' =
                   [c \in Columns |-> IF c = "ein" THEN Str(eins[idx])
                                      ELSE r.details[c]]
              /\ pc' = "store"
              /\ UNCHANGED <<log, idx>>
  /\ UNCHANGED <<charities, site, eins, existing_eins, html_content, runs,
                 prev, call, pause>>

\* lines 331-334, and line 346 when the extraction raises
Extract ==
  /\ pc = "parse"
  /\ LET r == ExtractCharityDetails(html_content) IN
       IF r.raised
         THEN /\ log' = Append(log, Entry(eins[idx], "Failed", "exception",
                                          TRUE, FALSE))
              /\ idx' = idx + 1
              /\ pc' = "loop"
              /\ charity_data' = NoData
         ELSE /\ charity_data' =
                   [c \in Columns |-> IF c = "ein" THEN Str(eins[idx])
                                      ELSE r.details[c]]
              /\ pc' = "store"
              /\ UNCHANGED <<log, idx>>
  /\ UNCHANGED <<charities, site, eins, existing_eins, html_content, runs,
                 prev, call, pause>>

\* lines 336-343, and line 346 when insert_data raises
Store ==
  /\ pc = "store"
  /\ IF HasName(charity_data)
       THEN LET res == InsertData(charities, charity_data, "REPLACE") IN
            /\ charities' = res.table
            /\ call' = InsertCall(charities, charity_data, "REPLACE")
            /\ IF res.raised
                 THEN /\ log' = Append(log, Entry(eins[idx], "Failed",
                                                  "exception", TRUE, FALSE))
                      /\ idx' = idx + 1
                      /\ pc' = "loop"
                 ELSE /\ log' = Append(log, Entry(eins[idx], "Persisted",
                                                  "stored", TRUE, TRUE))
                      /\ pc' = "sleep"
                      /\ UNCHANGED idx
       ELSE /\ log' = Append(log, Entry(eins[idx], "Failed", "noname",
                                        TRUE, FALSE))
            /\ pc' = "sleep"
            /\ UNCHANGED <<charities, call, idx>>
  /\ UNCHANGED <<site, eins, existing_eins, html_content, charity_data,
                 runs, prev, pause>>

\* line 345: random.uniform(1, 10)
MinDelay == 1
MaxDelay == 10
\* the delays looked at: the shortest and the longest
Delays == {MinDelay, MaxDelay}

\* line 345
Sleep ==
  /\ pc = "sleep"
  /\ pause' \in Delays
  /\ idx' = idx + 1
  /\ pc' = "loop"
  /\ UNCHANGED <<charities, site, eins, existing_eins, html_content,
                 charity_data, log, runs, prev, call>>

\* the for loop is exhausted: the function returns
Return ==
  /\ pc = "loop"
  /\ idx > Len(eins)
  /\ pc' = "done"
  /\ pause' = 0
  /\ UNCHANGED <<charities, site, eins, idx, existing_eins, html_content,
                 charity_data, log, runs, prev, call>>

\* remove_entry_by_ein_util, run by hand between two runs
RemoveEntry ==
  /\ pc \in Stopped
  /\ \E k \in Keys :
       /\ \E j \in 1..Len(charities) : charities[j].ein = Str(k)
       /\ charities' = RemoveByEin(charities, k)
       /\ call' = DeleteCall(k)
  /\ pc' = "idle"
  /\ prev' = NoPrev
  /\ UNCHANGED <<site, eins, idx, existing_eins, html_content, charity_data,
                 log, runs, pause>>

\* the site's pages are revised between two runs: what it answered
\* before no longer binds what it answers next
SiteRevised ==
  /\ pc \in Stopped
  /\ \E k \in Keys : site[k] # "unasked"
  /\ site' = [k \in Keys |-> "unasked"]
  /\ pc' = "idle"
  /\ prev' = NoPrev
  /\ UNCHANGED <<charities, eins, idx, existing_eins, html_content,
                 charity_data, log, runs, call, pause>>

Next ==
  \/ StartRun
  \/ StartRunFails
  \/ SkipHeader
  \/ SkipExisting
  \/ FetchPage
  \/ FetchFail
  \/ Extract
  \/ Store
  \/ Sleep
  \/ Return
  \/ RemoveEntry
  \/ SiteRevised

Spec == Init /\ [][Next]_vars

\* a step of the for loop other than the extraction.  Each of them ends:
\* the request has a timeout (line 58), the sleep lasts at most MaxDelay
LoopStep ==
  \/ SkipHeader
  \/ SkipExisting
  \/ FetchPage
  \/ FetchFail
  \/ Store
  \/ Sleep
  \/ Return

\* line 332: _extract_charity_details returns or raises; it loops over the
\* finitely many script tags of one page.  Under Next this step is Extract.
ExtractEnds == pc = "parse" /\ pc' \in {"loop", "store"}

\* SpecLive: the runs, each going on once started
\* the runs alone: nothing is removed and the site is not revised
NextLive ==
  \/ StartRun
  \/ StartRunFails
  \/ LoopStep
  \/ Extract

SpecLive ==
  Init /\ [][NextLive]_vars /\ WF_vars(LoopStep) /\ WF_pc(ExtractEnds)

(***************************************************************************)
(* SpecExtract: _extract_charity_details on every page of Pages            *)
(***************************************************************************)
InitExtract ==
  /\ charities = <<>>
  /\ site = [k \in Keys |-> "unasked"]
  /\ eins = <<"11">>
  /\ idx = 1
  /\ pc = "parse"
  /\ existing_eins = {}
  /\ html_content \in Pages
  /\ charity_data = NoData
  /\ log = <<>>
  /\ runs = 1
  /\ prev = NoPrev
  /\ call = NoCall
  /\ pause = 0

NextExtract == Extract

SpecExtract == InitExtract /\ [][NextExtract]_vars

(***************************************************************************)
(* SpecStore: DatabaseManager calls on the table                           *)
(***************************************************************************)
Policies == {"REPLACE", "IGNORE", "ABORT"}

StoreData ==
  { [NoData EXCEPT !.ein = e, !.name = n, !.website = w] :
      e \in {Absent, Str("11"), Str("22")},
      n \in {Absent, Str("A"), Str("B")},
      w \in {Absent, Str("w")} }
  \cup { [NoData EXCEPT !.ein = Str("11"), !.name = Str("A"),
                        !.nonprofitStatus = EmptyDict] }

InitStore ==
  /\ charities = <<>>
  /\ site = [k \in Keys |-> "unasked"]
  /\ eins = <<>>
  /\ idx = 1
  /\ pc = "db"
  /\ existing_eins = {}
  /\ html_content = NoContent
  /\ charity_data = NoData
  /\ log = <<>>
  /\ runs = 0
  /\ prev = NoPrev
  /\ call = NoCall
  /\ pause = 0

DbInsert ==
  /\ pc = "db"
  /\ Len(charities) < MaxRows
  /\ \E data \in StoreData, policy \in Policies :
       LET res == InsertData(charities, data, policy) IN
       /\ charities' = res.table
       /\ call' = InsertCall(charities, data, policy)
  /\ UNCHANGED <<site, eins, idx, pc, existing_eins, html_content,
                 charity_data, log, runs, prev, pause>>

DbRemove ==
  /\ pc = "db"
  /\ \E k \in Keys :
       /\ charities' = RemoveByEin(charities, k)
       /\ call' = DeleteCall(k)
  /\ UNCHANGED <<site, eins, idx, pc, existing_eins, html_content,
                 charity_data, log, runs, prev, pause>>

NextStore == DbInsert \/ DbRemove

SpecStore == InitStore /\ [][NextStore]_vars

(***************************************************************************)
(* Claims                                                                  *)
(***************************************************************************)
\* what the loop does with a key, from the key, the set loaded at the
\* start of the run and the answer of the site alone
ExpectedData(ein) ==
  [c \in Columns |->
     IF c = "ein" THEN Str(ein)
     ELSE ExtractCharityDetails(SitePage(site[ein])).details[c]]

ExpectedOutcome(ein) ==
  IF ein = HeaderToken \/ ein \in existing_eins THEN "Skipped"
  ELSE IF site[ein] \notin PageNames THEN "Failed"
  ELSE IF ExtractCharityDetails(SitePage(site[ein])).raised THEN "Failed"
  ELSE IF ~Truthy(ExpectedData(ein).name) THEN "Failed"
  ELSE IF \E c \in Columns : ExpectedData(ein)[c].t = "obj" THEN "Failed"
  ELSE "Persisted"

RowsWithEin(table, ein) == { j \in 1..Len(table) : table[j].ein = Str(ein) }

\* C1 as stated: a run that repeats the previous run's key list leaves the
\* table as the previous run left it, and every key of it is skipped,
\* none fetched, no row written.
C1_SecondRunSkipsEveryKey ==
  (pc = "done" /\ prev.valid) =>
     /\ charities = prev.table
     /\ \A j \in 1..Len(log) :
          log[j].outcome = "Skipped" /\ ~log[j].fetched /\ ~log[j].wrote

\* C1 amended: a run that repeats the previous run's list of non-empty keys
\* leaves the table as the previous run left it and writes no row; it skips
\* every key that has a row, and a key without a row (the previous run
\* could not persist it) is fetched again and fails again.
C1_SecondRunChangesNothing ==
  (pc = "done" /\ prev.valid /\ \A j \in 1..Len(eins) : eins[j] # "") =>
     /\ charities = prev.table
     /\ Len(log) = Len(eins)
     /\ \A j \in 1..Len(log) :
          /\ ~log[j].wrote
          /\ log[j].outcome \in {"Skipped", "Failed"}
          /\ RowsWithEin(prev.table, eins[j]) # {} =>
               (log[j].outcome = "Skipped" /\ ~log[j].fetched)
          /\ (RowsWithEin(prev.table, eins[j]) = {} /\ eins[j] # HeaderToken)
               => (log[j].outcome = "Failed" /\ log[j].fetched)

C1_Witness ==
  /\ pc = "done" /\ prev.valid /\ Len(eins) = 2
  /\ \A j \in 1..Len(eins) : eins[j] # ""
  /\ \E j \in 1..Len(log) : log[j].note = "exists"
  /\ \E j \in 1..Len(log) : log[j].outcome = "Failed" /\ log[j].fetched

\* C2: the step that decides on the insert leaves the table as it is when
\* the record's name is null or empty, and the key ends as Failed.
C2_NoRowWithoutName ==
  [][(pc = "store" /\ charity_data.name \in {None, Str("")}) =>
       /\ charities' = charities
       /\ Len(log') = Len(log) + 1
       /\ log'[Len(log')].ein = eins[idx]
       /\ log'[Len(log')].outcome = "Failed"]_vars

C2_Witness ==
  /\ pc = "sleep"
  /\ html_content = [canon |-> NoCanon, tags |-> <<>>]
  /\ charity_data.name = None
  /\ log[Len(log)].note = "noname"
  /\ charities # <<>>

\* C3: a key whose fetch fails gets no row written and ends as Failed, and
\* the run still takes every key of the list to the outcome that the key,
\* the loaded set and the site's answer determine; a key persisted has
\* its row.
C3_FetchFailureIsolated ==
  /\ \A j \in 1..Len(log) :
       site[log[j].ein] = "error" =>
         (log[j].outcome = "Failed" /\ ~log[j].wrote)
  /\ pc \in {"loop", "parse", "store"} => Len(log) = idx - 1
  /\ pc = "done" =>
       /\ Len(log) = Len(eins)
       /\ \A k \in 1..Len(eins) :
            /\ log[k].ein = eins[k]
            /\ log[k].outcome = ExpectedOutcome(eins[k])
            /\ log[k].outcome = "Persisted" =>
                 \E j \in 1..Len(charities) :
                   charities[j] = RowOf(ExpectedData(eins[k]))

C3_Witness ==
  /\ pc = "done" /\ Len(log) = 2
  /\ log[1].note = "fetch" /\ log[1].outcome = "Failed"
  /\ log[2].outcome = "Persisted"
  /\ RowsWithEin(charities, eins[1]) = {}
  /\ RowsWithEin(charities, eins[2]) # {}

\* C4: the key "EIN" is skipped wherever it stands and whatever the table
\* holds: the site is never asked for it and no row carries it.
C4_HeaderTokenSkipped ==
  /\ site[HeaderToken] = "unasked"
  /\ RowsWithEin(charities, HeaderToken) = {}
  /\ \A j \in 1..Len(log) :
       log[j].ein = HeaderToken =>
         (log[j].outcome = "Skipped" /\ ~log[j].fetched /\ ~log[j].wrote)

C4_Witness ==
  /\ pc = "done" /\ Len(log) = 2
  /\ log[2].ein = HeaderToken /\ log[2].outcome = "Skipped"
  /\ log[1].outcome = "Persisted"
  /\ charities # <<>>

\* C5: no two rows share a non-null ein, and after an insert with REPLACE
\* there is exactly one row with the record's ein, holding the record's
\* value in every column the record supplies and NULL in every other.
C5_ReplaceWholeRow ==
  /\ \A i, j \in 1..Len(charities) :
       (charities[i].ein = charities[j].ein /\ charities[i].ein # None)
         => i = j
  /\ (call.op = "insert" /\ call.policy = "REPLACE" /\ ~call.raised
      /\ call.data.ein # Absent) =>
       /\ Cardinality({ j \in 1..Len(charities) :
                          charities[j].ein = call.data.ein }) = 1
       /\ \A j \in 1..Len(charities) :
            charities[j].ein = call.data.ein =>
              \A c \in Columns :
                charities[j][c] = IF call.data[c] = Absent THEN None
                                  ELSE call.data[c]

C5_Witness ==
  /\ call.op = "insert" /\ call.policy = "REPLACE" /\ call.hit
  /\ ~call.raised
  /\ call.data.website = Absent /\ call.data.name = Str("B")
  /\ Len(charities) = 2
  /\ charities[2].ein = call.data.ein /\ charities[2].website = None

\* C6 as stated: the record's website is the ld+json url when that is
\* non-empty, else the url matched in the first qualifying script tag
\* that has one, else null.
C6_WebsitePrecedence ==
  pc = "store" =>
    LET canon == html_content.canon
        tags == html_content.tags
        cand == { j \in 1..Len(tags) :
                    tags[j].qualifies /\ tags[j].frag.url.m # "none" }
        first == CHOOSE j \in cand : \A k \in cand : j <= k
    IN charity_data.website =
         IF canon.kind = "dict" /\ Truthy(canon.url) THEN canon.url
         ELSE IF cand # {} THEN Convert("url", tags[first].frag.url)
         ELSE None

\* C7 as stated: the record's name is the ld+json name when the block
\* parses and has one, else the name matched in the first qualifying
\* script tag that has one, else null.
C7_NamePrecedence ==
  pc = "store" =>
    LET canon == html_content.canon
        tags == html_content.tags
        cand == { j \in 1..Len(tags) :
                    tags[j].qualifies /\ tags[j].frag.name.m # "none" }
        first == CHOOSE j \in cand : \A k \in cand : j <= k
    IN charity_data.name =
         IF canon.kind = "dict" /\ canon.name # Absent THEN canon.name
         ELSE IF cand # {} THEN Convert("name", tags[first].frag.name)
         ELSE None

\* C8 as stated: a key whose page carries a name in its ld+json block is
\* persisted, whatever optional field is missing or fails to parse.
C8_OptionalFieldsNeverFail ==
  \A j \in 1..Len(log) :
    (/\ log[j].fetched
     /\ site[log[j].ein] \in PageNames
     /\ SitePage(site[log[j].ein]).canon.kind = "dict"
     /\ Truthy(SitePage(site[log[j].ein]).canon.name))
      => log[j].outcome = "Persisted"

\* C9 as stated: the returned record has each of the nine fields, and
\* each value is a string, a number or null.
C9_NineFieldsScalarOrNull ==
  pc = "store" =>
    \A f \in DetailFields : charity_data[f].t \in {"str", "num", "null"}

\* C10 as stated: a page with a named ld+json block and no qualifying
\* script tag is persisted as one row whose address, phone, mission,
\* categories and rating are null and whose name, website, nonprofitStatus
\* and review are the block's values.
C10_CanonicalOnlyPersisted ==
  \A j \in 1..Len(log) :
    LET page == SitePage(site[log[j].ein])
        rows == RowsWithEin(charities, log[j].ein)
    IN (/\ pc \in {"loop", "sleep", "done"}
        /\ log[j].fetched
        /\ site[log[j].ein] \in PageNames
        /\ page.canon.kind = "dict"
        /\ Truthy(page.canon.name)
        /\ \A k \in 1..Len(page.tags) : ~page.tags[k].qualifies)
         => /\ log[j].outcome = "Persisted"
            /\ Cardinality(rows) = 1
            /\ \A r \in rows :
                 /\ \A f \in {"address", "phone", "mission", "categories",
                              "rating"} : charities[r][f] = None
                 /\ charities[r].name = page.canon.name
                 /\ charities[r].website =
                      IF page.canon.url = Absent THEN None
                      ELSE page.canon.url
                 /\ charities[r].nonprofitStatus =
                      IF page.canon.nonprofitStatus = Absent THEN None
                      ELSE page.canon.nonprofitStatus
                 /\ charities[r].review = ReviewValue(page.canon.review)

\* C11 as stated: a failure of the store stops the run.  A run whose
\* lookup at the start raised has looked at no key, and when the insert of
\* a key raised, no later key of the list is fetched or persisted.
C11_StoreFailureAbortsRun ==
  /\ pc = "aborted" => log = <<>>
  /\ \A j \in 1..Len(log) :
       (/\ log[j].note = "exception"
        /\ site[log[j].ein] \in PageNames
        /\ ~ExtractCharityDetails(SitePage(site[log[j].ein])).raised)
         => \A k \in (j + 1)..Len(log) : ~log[k].fetched /\ ~log[k].wrote

\* C12: a started run goes through the whole list and returns, with one
\* entry per key of the list, each Skipped, Persisted or Failed, also
\* after an exception in the extraction or in the insert of an earlier key;
\* only the failure of the lookup at the start stops a run.
C12_RunCompletesList ==
  /\ [](pc = "aborted" => (call.op = "select" /\ call.raised /\ log = <<>>))
  /\ [](pc = "done" =>
          /\ Len(log) = Len(eins)
          /\ \A j \in 1..Len(log) :
               /\ log[j].ein = eins[j]
               /\ log[j].outcome \in {"Skipped", "Persisted", "Failed"})
  /\ (pc = "loop") ~> (pc = "done")

C12_Witness ==
  /\ pc = "done" /\ Len(log) = 2
  /\ log[1].note = "exception" /\ site[log[1].ein] = "badfrag"
  /\ log[2].outcome = "Persisted"

\* C13 as stated: the keys that have a row when the run starts are loaded
\* once and the set is kept through the run; a key that had a row at the
\* start is skipped without a fetch, and every other key but the header
\* token is fetched, also one that got its row earlier in the same run.
C13_SnapshotDecidesEverySkip ==
  pc \in {"loop", "parse", "store", "sleep", "done"} =>
    /\ existing_eins =
         { k \in Keys : RowsWithEin(prev.table, k) # {} }
    /\ \A j \in 1..Len(log) :
         /\ RowsWithEin(prev.table, log[j].ein) # {} =>
              (log[j].outcome = "Skipped" /\ ~log[j].fetched)
         /\ (RowsWithEin(prev.table, log[j].ein) = {}
                /\ log[j].ein # HeaderToken) => log[j].fetched

\* C13 amended: the non-empty keys that have a row when the run starts are
\* loaded once and the set is kept through the run; a non-empty key that
\* had a row at the start is skipped without a fetch, and every other key
\* but the header token is fetched: the empty key even when it has a row,
\* and a key that got its row earlier in the same run.
C13_SnapshotOfNonEmptyKeys ==
  pc \in {"loop", "parse", "store", "sleep", "done"} =>
    /\ existing_eins =
         { k \in Keys \ {""} : RowsWithEin(prev.table, k) # {} }
    /\ \A j \in 1..Len(log) :
         /\ (RowsWithEin(prev.table, log[j].ein) # {} /\ log[j].ein # "") =>
              (log[j].outcome = "Skipped" /\ ~log[j].fetched)
         /\ ((RowsWithEin(prev.table, log[j].ein) = {} \/ log[j].ein = "")
                /\ log[j].ein # HeaderToken) => log[j].fetched

C13_Witness ==
  /\ pc = "done" /\ Len(log) = 2
  /\ prev.table # <<>>
  /\ log[1].ein = log[2].ein
  /\ log[1].outcome = "Persisted" /\ log[2].outcome = "Persisted"
  /\ log[2].fetched

\* C14 as stated: when a fetch is issued after a page was fetched earlier
\* in the run, the loop has slept between MinDelay and MaxDelay seconds
\* since that page was fetched, whatever became of the page; and the step
\* that skips a key takes no pause.
C14_PauseAfterEachFetchedPage ==
  [][LET ended == Len(log') = Len(log) + 1
         fetchIssued ==
           pc = "loop" /\ (pc' = "parse"
                            \/ (ended /\ log'[Len(log')].note = "fetch"))
         skipped == ended /\ log'[Len(log')].outcome = "Skipped"
         pageFetchedBefore ==
           \E j \in 1..Len(log) :
             log[j].fetched /\ site[log[j].ein] \in PageNames
     IN /\ (fetchIssued /\ pageFetchedBefore)
             => pause \in MinDelay..MaxDelay
        /\ skipped => pause' = pause]_vars

\* the scan that never leaves the loop: every tag is looked at, under the
\* same guards
RECURSIVE FullScan(_, _)
FullScan(s, tags) ==
  IF tags = <<>> THEN s
  ELSE FullScan(ScanTag([s EXCEPT !.done = FALSE], Head(tags)), Tail(tags))

C16_RunKeepsEveryRow ==
  [][/\ pc' \in {"loop", "parse", "store", "sleep", "done"} =>
          /\ \A j \in 1..Len(prev'.table) :
               \E i \in 1..Len(charities') : charities'[i] = prev'.table[j]
          /\ call'.op # "delete"
     /\ \A k \in Keys :
          (RowsWithEin(charities, k) # {} /\ RowsWithEin(charities', k) = {})
            => (call'.op = "delete" /\ pc \in Stopped)]_vars

\* C16 amended: while a run is going on and when it has returned, every
\* row of a non-empty key that the table had when the run started is in
\* the table with the same values (the row of the empty key may have been
\* replaced by the record fetched in this run) and the run has made no
\* delete call; a key that has a row, the empty key too, loses it only in
\* a step of remove_entry_by_ein, taken while no run is going on.
C16_RunKeepsRowsOfNonEmptyKeys ==
  [][/\ pc' \in {"loop", "parse", "store", "sleep", "done"} =>
          /\ \A j \in 1..Len(prev'.table) :
               prev'.table[j].ein # Str("") =>
                 \E i \in 1..Len(charities') :
                   charities'[i] = prev'.table[j]
          /\ call'.op # "delete"
     /\ \A k \in Keys :
          (RowsWithEin(charities, k) # {} /\ RowsWithEin(charities', k) = {})
            => (call'.op = "delete" /\ pc \in Stopped)]_vars

C16_Witness ==
  /\ pc = "done"
  /\ \E j \in 1..Len(prev.table) : prev.table[j].ein # Str("")
  /\ \E j \in 1..Len(prev.table) :
       /\ prev.table[j].ein = Str("")
       /\ \A i \in 1..Len(charities) : charities[i] # prev.table[j]
  /\ RowsWithEin(charities, "") # {}

====
